---- MODULE Spec2Model ----
(***************************************************************************)
(* Model of konigsberg_bridge_example.py: the two Eulerian deciders        *)
(* is_eulerian and has_eulerian_path, applied to NetworkX multigraphs      *)
(* (MultiGraph / MultiDiGraph) that are built edge by edge, and the two    *)
(* unit tests (seven bridges of Konigsberg, five bridges of Kaliningrad).  *)
(*                                                                         *)
(* A graph is a record [directed, nodes, adj].  adj[<<u, v>>] is the       *)
(* number of parallel edges stored under G._adj[u][v]: for an undirected   *)
(* graph NetworkX stores every edge under both G._adj[u][v] and            *)
(* G._adj[v][u] (a self-loop once, under G._adj[u][u]); for a directed     *)
(* graph adj is the successor table G._succ.                               *)
(*                                                                         *)
(* A call returns "True" or "False", or raises NetworkXPointlessConcept,   *)
(* which is what nx.is_connected, nx.is_strongly_connected and             *)
(* nx.is_weakly_connected do on a graph with no nodes.                     *)
(***************************************************************************)
EXTENDS Integers, FiniteSets, Sequences, TLC

\* Largest number of edges add_edge puts into a graph.
MaxEdges == 4

\* The node names used by the tests.
Nodes == {"A", "B", "C", "D"}

Pairs == Nodes \X Nodes

NoEdges == [p \in Pairs |-> 0]

VARIABLES directed, nodes, adj, ret_is_eulerian, ret_has_eulerian_path

vars == <<directed, nodes, adj, ret_is_eulerian, ret_has_eulerian_path>>

\* The graph object the functions are called with.
G == [directed |-> directed, nodes |-> nodes, adj |-> adj]

RECURSIVE SumOver(_, _)
\* sum(f[x] for x in S)
SumOver(f, S) ==
    IF S = {} THEN 0
    ELSE LET x == CHOOSE y \in S : TRUE
         IN  f[x] + SumOver(f, S \ {x})

\* G.number_of_edges()
number_of_edges(g) ==
    IF g.directed
    THEN SumOver(g.adj, Pairs)
    ELSE (SumOver(g.adj, Pairs) + SumOver([n \in Nodes |-> g.adj[<<n, n>>]], Nodes)) \div 2

----------------------------------------------------------------------------
(* Degrees *)

\* Mutant of in_degree: a self-loop is not counted as an incoming edge.
in_degree_noloop(g, v) ==
    SumOver([u \in Nodes |-> IF u = v THEN 0 ELSE g.adj[<<u, v>>]], Nodes)

\* G.in_degree(v): the number of edges u -> v, parallel edges counted.
in_degree(g, v) ==
    SumOver([u \in Nodes |-> g.adj[<<u, v>>]], Nodes)

\* G.out_degree(v): the number of edges v -> w, parallel edges counted.
out_degree(g, v) ==
    SumOver([w \in Nodes |-> g.adj[<<v, w>>]], Nodes)

\* Mutant of degree: a self-loop adds 1 to the degree instead of 2.
degree_loop_once(g, v) ==
    SumOver([w \in Nodes |-> g.adj[<<v, w>>]], Nodes)

\* G.degree(v) of an undirected multigraph: every incident edge counts once,
\* a self-loop twice.
degree(g, v) ==
    SumOver([w \in Nodes |-> g.adj[<<v, w>>]], Nodes) + g.adj[<<v, v>>]

----------------------------------------------------------------------------
(* Connectivity, as NetworkX computes it *)

\* Neighbours of v following the stored adjacency (successors when directed).
Succ(g, v) == {w \in g.nodes : g.adj[<<v, w>>] > 0}

\* Neighbours of v with the direction of the edges erased.
UndirectedNbrs(g, v) == {w \in g.nodes : g.adj[<<v, w>>] > 0 \/ g.adj[<<w, v>>] > 0}

RECURSIVE plain_bfs(_, _)
\* The set of nodes reached from the set S along the stored adjacency.
plain_bfs(g, S) ==
    LET next == S \cup UNION {Succ(g, v) : v \in S}
    IN  IF next = S THEN S ELSE plain_bfs(g, next)

RECURSIVE weak_bfs(_, _)
\* The set of nodes reached from the set S ignoring direction.
weak_bfs(g, S) ==
    LET next == S \cup UNION {UndirectedNbrs(g, v) : v \in S}
    IN  IF next = S THEN S ELSE weak_bfs(g, next)

\* arbitrary_element(G)
arbitrary_element(g) == CHOOSE v \in g.nodes : TRUE

Bool(b) == IF b THEN "True" ELSE "False"

\* Mutant of is_connected: the null-graph test looks at the edges, not the nodes.
is_connected_raise_no_edges(g) ==
    IF number_of_edges(g) = 0 THEN "NetworkXPointlessConcept"
    ELSE Bool(plain_bfs(g, {arbitrary_element(g)}) = g.nodes)

\* Mutant of is_connected: only the nodes that carry an edge have to be reached.
is_connected_skip_isolated(g) ==
    IF g.nodes = {} THEN "NetworkXPointlessConcept"
    ELSE LET busy == {v \in g.nodes : degree(g, v) > 0}
         IN  IF busy = {} THEN "True"
             ELSE Bool(plain_bfs(g, {CHOOSE v \in busy : TRUE}) = busy)

\* nx.is_connected(G): raises on the null graph, else one search from an
\* arbitrary node has to reach every node of G.
is_connected(g) ==
    IF g.nodes = {} THEN "NetworkXPointlessConcept"
    ELSE Bool(plain_bfs(g, {arbitrary_element(g)}) = g.nodes)

\* Mutant of is_weakly_connected: the search follows the edge direction.
is_weakly_connected_forward(g) ==
    IF g.nodes = {} THEN "NetworkXPointlessConcept"
    ELSE Bool(plain_bfs(g, {arbitrary_element(g)}) = g.nodes)

\* nx.is_weakly_connected(G): raises on the null graph, else the weakly
\* connected component of an arbitrary node has to be all of G.
is_weakly_connected(g) ==
    IF g.nodes = {} THEN "NetworkXPointlessConcept"
    ELSE Bool(weak_bfs(g, {arbitrary_element(g)}) = g.nodes)

\* The strongly connected component of v.
scc(g, v) == {w \in plain_bfs(g, {v}) : v \in plain_bfs(g, {w})}

\* Mutant of is_strongly_connected: only the direct successors and
\* predecessors of the start node are looked at, not everything reachable.
is_strongly_connected_one_step(g) ==
    IF g.nodes = {} THEN "NetworkXPointlessConcept"
    ELSE LET s == arbitrary_element(g)
         IN  Bool({s} \cup {w \in Succ(g, s) : s \in Succ(g, w)} = g.nodes)

\* nx.is_strongly_connected(G): raises on the null graph, else the strongly
\* connected component of an arbitrary node has to be all of G.
is_strongly_connected(g) ==
    IF g.nodes = {} THEN "NetworkXPointlessConcept"
    ELSE Bool(scc(g, arbitrary_element(g)) = g.nodes)

----------------------------------------------------------------------------
(* The two deciders.  `a and b` evaluates b only when a is true. *)

\* Mutant of is_eulerian: the undirected branch forgets the connectivity test.
is_eulerian_no_connectivity(g) ==
    IF g.directed
    THEN IF \A n \in g.nodes : in_degree(g, n) = out_degree(g, n)
         THEN is_strongly_connected(g)
         ELSE "False"
    ELSE Bool(\A v \in g.nodes : degree(g, v) % 2 = 0)

is_eulerian(g) ==
    IF g.directed
    THEN IF \A n \in g.nodes : in_degree(g, n) = out_degree(g, n)
         THEN is_strongly_connected(g)
         ELSE "False"
    ELSE IF \A v \in g.nodes : degree(g, v) % 2 = 0
         THEN is_connected(g)
         ELSE "False"

\* semibalanced_ins = sum(ins(v) - outs(v) == 1 for v in G)
semibalanced_ins(g) ==
    Cardinality({v \in g.nodes : in_degree(g, v) - out_degree(g, v) = 1})

\* semibalanced_outs = sum(outs(v) - ins(v) == 1 for v in G)
semibalanced_outs(g) ==
    Cardinality({v \in g.nodes : out_degree(g, v) - in_degree(g, v) = 1})

\* sum(G.in_degree(v) != G.out_degree(v) for v in G)
imbalanced(g) ==
    Cardinality({v \in g.nodes : in_degree(g, v) # out_degree(g, v)})

\* sum(d % 2 == 1 for v, d in G.degree())
odd_count(g) ==
    Cardinality({v \in g.nodes : degree(g, v) % 2 = 1})

\* Mutant of has_eulerian_path: the undirected branch accepts only two odd
\* vertices, so a closed walk is not taken for a path.
has_eulerian_path_two_only(g) ==
    IF g.directed
    THEN IF /\ semibalanced_ins(g) <= 1
            /\ semibalanced_outs(g) <= 1
            /\ imbalanced(g) <= 2
         THEN is_weakly_connected(g)
         ELSE "False"
    ELSE IF odd_count(g) = 2
         THEN is_connected(g)
         ELSE "False"

has_eulerian_path(g) ==
    IF g.directed
    THEN IF /\ semibalanced_ins(g) <= 1
            /\ semibalanced_outs(g) <= 1
            /\ imbalanced(g) <= 2
         THEN is_weakly_connected(g)
         ELSE "False"
    ELSE IF odd_count(g) \in {0, 2}
         THEN is_connected(g)
         ELSE "False"

----------------------------------------------------------------------------
(* Building a graph and calling the deciders *)

\* G.add_edge(u, v) without a key: one more parallel edge; both end points
\* become nodes.  An undirected edge is stored under both orientations.
add_edge(a, dir, u, v) ==
    IF dir \/ u = v
    THEN [a EXCEPT ![<<u, v>>] = @ + 1]
    ELSE [a EXCEPT ![<<u, v>>] = @ + 1, ![<<v, u>>] = @ + 1]

RECURSIVE add_edges_from(_, _, _)
\* G.add_edges_from(ebunch): add_edge for every entry of the list, in order.
\* The keys of the test lists are pairwise different, so every entry is a
\* new edge.
add_edges_from(a, dir, ebunch) ==
    IF ebunch = <<>> THEN a
    ELSE add_edges_from(add_edge(a, dir, Head(ebunch)[1], Head(ebunch)[2]),
                        dir, Tail(ebunch))

\* The edge list of test_seven_bridges_of_konigsberg.
SevenBridges ==
    << <<"A", "B">>, <<"A", "B">>, <<"A", "C">>, <<"A", "C">>,
       <<"A", "D">>, <<"C", "D">>, <<"B", "D">> >>

\* The edge list of test_five_bridges_of_kaliningrad.
FiveBridges ==
    << <<"A", "B">>, <<"A", "C">>, <<"A", "D">>, <<"C", "D">>, <<"B", "D">> >>

Konigsberg ==
    [directed |-> FALSE, nodes |-> Nodes,
     adj |-> add_edges_from(NoEdges, FALSE, SevenBridges)]

Kaliningrad ==
    [directed |-> FALSE, nodes |-> Nodes,
     adj |-> add_edges_from(NoEdges, FALSE, FiveBridges)]

Uncalled == ret_is_eulerian = "uncalled" /\ ret_has_eulerian_path = "uncalled"

\* A freshly constructed graph of either kind: no nodes, no edges.
Init ==
    /\ directed \in BOOLEAN
    /\ nodes = {}
    /\ adj = NoEdges
    /\ ret_is_eulerian = "uncalled"
    /\ ret_has_eulerian_path = "uncalled"

\* G.add_node(v)
AddNode(v) ==
    /\ Uncalled
    /\ v \notin nodes
    /\ nodes' = nodes \cup {v}
    /\ UNCHANGED <<directed, adj, ret_is_eulerian, ret_has_eulerian_path>>

\* G.add_edge(u, v)
AddEdge(u, v) ==
    /\ Uncalled
    /\ number_of_edges(G) < MaxEdges
    /\ nodes' = nodes \cup {u, v}
    /\ adj' = add_edge(adj, directed, u, v)
    /\ UNCHANGED <<directed, ret_is_eulerian, ret_has_eulerian_path>>

\* is_eulerian(G)
CallIsEulerian ==
    /\ ret_is_eulerian = "uncalled"
    /\ ret_is_eulerian' = is_eulerian(G)
    /\ UNCHANGED <<directed, nodes, adj, ret_has_eulerian_path>>

\* has_eulerian_path(G)
CallHasEulerianPath ==
    /\ ret_has_eulerian_path = "uncalled"
    /\ ret_has_eulerian_path' = has_eulerian_path(G)
    /\ UNCHANGED <<directed, nodes, adj, ret_is_eulerian>>

\* TestEulerMethods.test_seven_bridges_of_konigsberg: build K, then call
\* has_eulerian_path(K).
test_seven_bridges_of_konigsberg ==
    /\ Uncalled
    /\ ~directed
    /\ nodes = {}
    /\ nodes' = Konigsberg.nodes
    /\ adj' = Konigsberg.adj
    /\ ret_has_eulerian_path' = has_eulerian_path(Konigsberg)
    /\ UNCHANGED <<directed, ret_is_eulerian>>

\* TestEulerMethods.test_five_bridges_of_kaliningrad: build K, then call
\* has_eulerian_path(K).
test_five_bridges_of_kaliningrad ==
    /\ Uncalled
    /\ ~directed
    /\ nodes = {}
    /\ nodes' = Kaliningrad.nodes
    /\ adj' = Kaliningrad.adj
    /\ ret_has_eulerian_path' = has_eulerian_path(Kaliningrad)
    /\ UNCHANGED <<directed, ret_is_eulerian>>

Next ==
    \/ \E v \in Nodes : AddNode(v)
    \/ \E u \in Nodes, v \in Nodes : AddEdge(u, v)
    \/ CallIsEulerian
    \/ CallHasEulerianPath
    \/ test_seven_bridges_of_konigsberg
    \/ test_five_bridges_of_kaliningrad

Spec == Init /\ [][Next]_vars

Results == {"uncalled", "True", "False", "NetworkXPointlessConcept"}

TypeOK ==
    /\ directed \in BOOLEAN
    /\ nodes \subseteq Nodes
    /\ ret_is_eulerian \in Results
    /\ ret_has_eulerian_path \in Results
    /\ \A p \in Pairs : adj[p] \in Nat
    /\ \A p \in Pairs : adj[p] > 0 => (p[1] \in nodes /\ p[2] \in nodes)
    /\ ~directed => \A p \in Pairs : adj[p] = adj[<<p[2], p[1]>>]

----------------------------------------------------------------------------
(* Helpers of the properties *)

BothCalled == ret_is_eulerian # "uncalled" /\ ret_has_eulerian_path # "uncalled"

\* The graph with every edge u -> v replaced by v -> u.
Reversed(g) ==
    [directed |-> g.directed, nodes |-> g.nodes,
     adj |-> [p \in Pairs |-> g.adj[<<p[2], p[1]>>]]]

\* The nodes with at least one incident edge (a self-loop included).
EdgeBearing(g) ==
    {v \in g.nodes : \E w \in g.nodes : g.adj[<<v, w>>] > 0 \/ g.adj[<<w, v>>] > 0}

\* All edge-bearing nodes lie in one component of the underlying undirected graph.
OneEdgeComponent(g) ==
    \A v \in EdgeBearing(g) : EdgeBearing(g) \subseteq weak_bfs(g, {v})

\* One edge-bearing component plus at least one isolated node.
ComponentPlusIsolated(g) ==
    /\ EdgeBearing(g) # {}
    /\ OneEdgeComponent(g)
    /\ g.nodes \ EdgeBearing(g) # {}

\* The undirected multigraph a without one edge between v and w.
remove_edge(a, v, w) ==
    IF v = w
    THEN [a EXCEPT ![<<v, v>>] = @ - 1]
    ELSE [a EXCEPT ![<<v, w>>] = @ - 1, ![<<w, v>>] = @ - 1]

RECURSIVE WalkFrom(_, _)
\* Some walk starting at v uses every edge of the undirected multigraph a
\* exactly once (found by trying every edge at every step).
WalkFrom(a, v) ==
    \/ \A p \in Pairs : a[p] = 0
    \/ \E w \in Nodes : a[<<v, w>>] > 0 /\ WalkFrom(remove_edge(a, v, w), w)

\* Some walk uses every edge of the undirected multigraph g exactly once.
ExistsEulerWalk(g) == \E v \in g.nodes : WalkFrom(g.adj, v)

\* Sum over all nodes of in-degree minus out-degree.
BalanceSum(g) ==
    SumOver([v \in Nodes |-> IF v \in g.nodes THEN in_degree(g, v) - out_degree(g, v) ELSE 0],
            Nodes)

----------------------------------------------------------------------------
(* Properties *)

\* C1: whenever is_eulerian(G) returns True, has_eulerian_path(G) returns True
\* (directed or undirected, parallel edges and self-loops allowed).
C1_CircuitImpliesPath ==
    (ret_is_eulerian = "True" /\ ret_has_eulerian_path # "uncalled")
        => ret_has_eulerian_path = "True"

\* C1 witness: a graph with edges on which both calls returned True.
C1_Witness ==
    /\ number_of_edges(G) >= 2
    /\ ret_is_eulerian = "True"
    /\ ret_has_eulerian_path = "True"

C4_DocstringUndirected ==
    (~directed /\ ret_has_eulerian_path \in {"True", "False"}) =>
        (ret_has_eulerian_path = "True"
            <=> (odd_count(G) \in {0, 2} /\ OneEdgeComponent(G)))

\* C5 as stated (the docstring): when has_eulerian_path returns True on a
\* directed graph, at most one node has out - in = 1, at most one has
\* in - out = 1, and every other node has in = out.
C5_DocstringDirected ==
    (directed /\ ret_has_eulerian_path = "True") =>
        /\ semibalanced_outs(G) <= 1
        /\ semibalanced_ins(G) <= 1
        /\ \A v \in nodes :
              \/ in_degree(G, v) = out_degree(G, v)
              \/ in_degree(G, v) - out_degree(G, v) = 1
              \/ out_degree(G, v) - in_degree(G, v) = 1

\* C6: reversing every edge of a directed graph changes neither the
\* is_eulerian verdict nor the has_eulerian_path verdict.
C6_ReversalSymmetry ==
    directed =>
        /\ ret_is_eulerian # "uncalled" => is_eulerian(Reversed(G)) = ret_is_eulerian
        /\ ret_has_eulerian_path # "uncalled" =>
              has_eulerian_path(Reversed(G)) = ret_has_eulerian_path

\* C6 witness: a directed graph that differs from its reversal and has an
\* open Eulerian path but no circuit, both calls made.
C6_Witness ==
    /\ directed
    /\ Reversed(G) # G
    /\ ret_is_eulerian = "False"
    /\ ret_has_eulerian_path = "True"

\* C7 as stated: on every directed graph the in/out differences sum to 0 and
\* semibalanced_ins equals semibalanced_outs.
C7_CountsAlwaysEqual ==
    (directed /\ ret_has_eulerian_path # "uncalled") =>
        /\ BalanceSum(G) = 0
        /\ semibalanced_ins(G) = semibalanced_outs(G)

\* C7 amended: on every directed graph the in/out differences sum to 0, and
\* semibalanced_ins equals semibalanced_outs whenever at most two nodes have
\* in-degree different from out-degree.
C7_BalanceSum ==
    (directed /\ ret_has_eulerian_path # "uncalled") =>
        /\ BalanceSum(G) = 0
        /\ imbalanced(G) <= 2 => semibalanced_ins(G) = semibalanced_outs(G)

\* C7 witness: has_eulerian_path ran on a directed graph with a self-loop,
\* one semibalanced start and one semibalanced end.
C7_Witness ==
    /\ directed
    /\ ret_has_eulerian_path # "uncalled"
    /\ \E v \in nodes : adj[<<v, v>>] > 0
    /\ semibalanced_ins(G) = 1
    /\ semibalanced_outs(G) = 1

\* C8: on an undirected multigraph whose nodes all lie in one component,
\* has_eulerian_path returns True exactly when some walk uses every edge
\* exactly once; it returns False on the seven bridges of Konigsberg and True
\* on the five bridges of Kaliningrad.
C8_EulerWalkExists ==
    /\ (~directed /\ ret_has_eulerian_path # "uncalled" /\ is_connected(G) = "True") =>
          (ret_has_eulerian_path = "True" <=> ExistsEulerWalk(G))
    /\ (~directed /\ ret_has_eulerian_path # "uncalled" /\ adj = Konigsberg.adj) =>
          ret_has_eulerian_path = "False"
    /\ (~directed /\ ret_has_eulerian_path # "uncalled" /\ adj = Kaliningrad.adj
           /\ nodes = Nodes) =>
          ret_has_eulerian_path = "True"

\* C8 witness: the seven-bridge multigraph (degrees 5, 3, 3, 3) was built and
\* has_eulerian_path returned False on it.
C8_Witness ==
    /\ ~directed
    /\ nodes = Nodes
    /\ adj = Konigsberg.adj
    /\ degree(G, "A") = 5 /\ degree(G, "B") = 3 /\ degree(G, "C") = 3 /\ degree(G, "D") = 3
    /\ ret_has_eulerian_path = "False"

\* C9: on a graph with no edges and at least one node, is_eulerian returns
\* True when there is exactly one node and False when there are two or more.
C9_ZeroEdgeGraphs ==
    (number_of_edges(G) = 0 /\ nodes # {} /\ ret_is_eulerian # "uncalled") =>
        /\ Cardinality(nodes) = 1 => ret_is_eulerian = "True"
        /\ Cardinality(nodes) >= 2 => ret_is_eulerian = "False"

\* C9 witness: is_eulerian returned False on an edgeless graph with two or
\* more nodes.
C9_Witness ==
    /\ number_of_edges(G) = 0
    /\ Cardinality(nodes) >= 2
    /\ ret_is_eulerian = "False"

====
